---- MODULE Spec2Model ----
(***************************************************************************)
(* Model of ebird_map.py: the text record extractor (parse_sightings), the *)
(* grouper (group_sightings), the popup builder (popup_html), the colour   *)
(* scaler (age_color), the map generator (generate_map), the API adapter   *)
(* (fetch_sightings) and the orchestrator (main).                          *)
(*                                                                         *)
(* Conventions.  A Python value that may be None is a sequence of length   *)
(* at most one: None is << >> and a present value v is << v >>.  Calendar  *)
(* dates are day numbers.  Coordinates are integers in units of 10^-6      *)
(* degree.  A fraction is a pair << numerator, denominator >>.             *)
(***************************************************************************)
EXTENDS Integers, Sequences, FiniteSets, TLC

VARIABLES
    \* parse_sightings
    body,        \* the lines of the body consumed so far, classified
    current,     \* the accumulator: None for {}, << record >> otherwise
    sightings,   \* the output list
    ppc          \* "scan" inside the for loop, "done" after return

parseVars == <<body, current, sightings, ppc>>

VARIABLES
    \* group_sightings and popup_html
    gin,         \* the list passed to group_sightings
    gpos,        \* how many of its records the for loop has taken
    groups,      \* the defaultdict, in insertion order: << [key, members], ... >>
    popups,      \* popup_html of each group, in groups.items() order
    gpc          \* "group", "popup" or "done"

groupVars == <<gin, gpos, groups, popups, gpc>>

VARIABLES
    \* age_color
    age_fraction,  \* the argument, << numerator, denominator >>
    color,         \* the result: None before the call, << [r, g, b, hex] >> after
    cpc            \* "call" or "ret"

colorVars == <<age_fraction, color, cpc>>

VARIABLES
    \* main, fetch_sightings and generate_map
    pc,            \* where main is: "start", "parse", "date_filter", "collect",
                   \* "state_filter", "check", "generate", or "end"
    args,          \* the parsed command line and the EBIRD_API_KEY variable
    env,           \* the outside world: the .eml files found, the API's answer
    idx,           \* how many of eml_paths the parse loop has taken
    parsed_emls,   \* the list of (subject, sightings, send_date)
    newest_date,   \* None until computed
    all_sightings, \* None until assigned
    outcome,       \* None while running; << [kind, ...] >> once the process ended
    gm             \* None, or << what generate_map computed and wrote >>

mainVars == <<pc, args, env, idx, parsed_emls, newest_date, all_sightings, outcome, gm>>

vars == <<parseVars, groupVars, colorVars, mainVars>>

otherVars == <<parseVars, groupVars, colorVars>>

None == << >>

Some(v) == << v >>

\* Python truthiness of an optional number: None and 0 (0.0, -0.0) are falsy.
Truthy(opt) == opt # None /\ opt[1] # 0

(***************************************************************************)
(* parse_sightings                                                         *)
(***************************************************************************)

\* Longest body the model scans.
MaxLines == 4

\* Lines the species-header regex matches: species, scientific name, the
\* optional count group and the optional CONFIRMED group.
HeaderLines ==
    { <<"header", "Snowy Owl", "Bubo scandiacus", Some("2"), TRUE>>,
      <<"header", "Ruff", "Calidris pugnax", None, FALSE>> }

\* "- Map:" lines whose q=<lat>,<lon> pair the coordinate regex finds.
MapLines == { <<"map", 0, 5000000>>, <<"map", 4000000, 0>>, <<"map", -4000000, 5000000>> }

\* Every other line, by the branch of the elif chain that takes it.
FieldLines ==
    { <<"reported", "Feb 05, 2026 15:08", "Ann">>,   \* "- Reported <date> by <observer>"
      <<"reported_nomatch">>,                        \* "- Reported " without " by "
      <<"map_noq">>,                                 \* "- Map:" without q=<lat>,<lon>
      <<"checklist", "https://ebird.org/checklist/S1">>,
      <<"comments", "seen well">>,
      <<"bullet", "Plum Island">>,                   \* any other "- " line
      <<"bullet", "Essex, Massachusetts">>,
      <<"ignored">> }                                \* Media, separators, blank, prose

\* The record a header line starts (the dict literal), with the number of the
\* header line kept as the auxiliary field hdr.
NewRecord(line, n) ==
    [ species |-> line[2], scientific |-> line[3],
      count |-> IF line[4] = None THEN "?" ELSE line[4][1],
      confirmed |-> line[5],
      location |-> "", lat |-> None, lon |-> None, date |-> "", observer |-> "",
      comments |-> "", checklist |-> "", hdr |-> n ]

\* A test that takes any started record.
HasCoordsAlways(cur) == cur # None

\* current.get("lat"): the test that guards both appends.
HasCoords(cur) == cur # None /\ Truthy(cur[1].lat)

\* if current.get("lat"): sightings.append(current)
Flush(out, cur) == IF HasCoords(cur) THEN Append(out, cur[1]) ELSE out

\* The header branch of the loop body.
ParseHeader ==
    /\ ppc = "scan" /\ Len(body) < MaxLines
    /\ \E line \in HeaderLines :
        /\ body' = Append(body, line)
        /\ sightings' = Flush(sightings, current)
        /\ current' = Some(NewRecord(line, Len(body) + 1))
    /\ UNCHANGED <<ppc, groupVars, colorVars, mainVars>>

\* The effect of a non-header line on a non-empty accumulator.
ApplyField(rec, line) ==
    CASE line[1] = "reported" -> [rec EXCEPT !.date = line[2], !.observer = line[3]]
      [] line[1] = "map" -> [rec EXCEPT !.lat = Some(line[2]), !.lon = Some(line[3])]
      [] line[1] = "checklist" -> [rec EXCEPT !.checklist = line[2]]
      [] line[1] = "comments" -> [rec EXCEPT !.comments = line[2]]
      [] line[1] = "bullet" ->
            IF rec.lat = None /\ rec.location = ""
            THEN [rec EXCEPT !.location = line[2]] ELSE rec
      [] OTHER -> rec

\* Any line the header regex does not match.
ParseField ==
    /\ ppc = "scan" /\ Len(body) < MaxLines
    /\ \E line \in MapLines \cup FieldLines :
        /\ body' = Append(body, line)
        /\ current' = IF current = None THEN current
                      ELSE Some(ApplyField(current[1], line))
    /\ UNCHANGED <<sightings, ppc, groupVars, colorVars, mainVars>>

\* End of input: the append after the loop, and the return.
ParseEnd ==
    /\ ppc = "scan"
    /\ sightings' = Flush(sightings, current)
    /\ ppc' = "done"
    /\ UNCHANGED <<body, current, groupVars, colorVars, mainVars>>

GroupIdle ==
    /\ gin = << >> /\ gpos = 0 /\ groups = << >> /\ popups = << >> /\ gpc = "idle"

ColorIdle == age_fraction = <<0, 1>> /\ color = None /\ cpc = "idle"

MainIdle ==
    /\ pc = "idle" /\ args = None /\ env = None /\ idx = 0 /\ parsed_emls = << >>
    /\ newest_date = None /\ all_sightings = None /\ outcome = None /\ gm = None

ParseInit ==
    /\ body = << >> /\ current = None /\ sightings = << >> /\ ppc = "scan"
    /\ GroupIdle /\ ColorIdle /\ MainIdle

ParseNext == ParseHeader \/ ParseField \/ ParseEnd

SpecParse == ParseInit /\ [][ParseNext]_vars

\* ---- properties of parse_sightings ----

IsHeader(i) == body[i][1] = "header"

\* The lines of the record whose header is line h: up to the next header.
BlockOf(h) ==
    { j \in (h + 1)..Len(body) : \A k \in (h + 1)..j : ~IsHeader(k) }

\* A "- Map:" line carrying q=<lat>,<lon> was processed since header h.
GotCoords(h) == \E j \in BlockOf(h) : body[j][1] = "map"

\* The record of header h has been finalized: a later header was processed or
\* the input ended.
Closed(h) == ppc = "done" \/ \E k \in (h + 1)..Len(body) : IsHeader(k)

InOutput(h) == \E i \in 1..Len(sightings) : sightings[i].hdr = h

\* C1: whenever a new header is processed or the input ends, a record that
\* received coordinates since its header is in the output, whatever latitude
\* and longitude the Map line carried (0 included).
C1_NoRecordWithCoordsLost ==
    \A h \in 1..Len(body) :
        (IsHeader(h) /\ GotCoords(h) /\ Closed(h)) => InOutput(h)

\* C2: a record that never received a coordinate Map line is not in the
\* output, every output record has lat and lon set, and the output is in
\* header order.
C2_OnlyRecordsWithCoords ==
    /\ \A h \in 1..Len(body) : (IsHeader(h) /\ ~GotCoords(h)) => ~InOutput(h)
    /\ \A i \in 1..Len(sightings) :
        /\ sightings[i].lat # None /\ sightings[i].lon # None
        /\ sightings[i].hdr \in 1..Len(body) /\ IsHeader(sightings[i].hdr)
    /\ \A i, j \in 1..Len(sightings) : i < j => sightings[i].hdr < sightings[j].hdr

\* A record without coordinates was dropped at a header and one with
\* coordinates was kept, and the input has ended.
C2_Witness ==
    /\ ppc = "done" /\ Len(sightings) >= 1
    /\ \E h \in 1..Len(body) : IsHeader(h) /\ ~GotCoords(h) /\ Closed(h)

(***************************************************************************)
(* group_sightings and popup_html                                          *)
(***************************************************************************)

\* Longest list the model groups.
MaxSightings == 3

Abs(x) == IF x < 0 THEN -x ELSE x

\* round(x, 5) of a coordinate given in units of 10^-6: the nearest multiple
\* of 10, in units of 10^-5, a tie going to the even neighbour.
Round5(v) ==
    LET a == Abs(v)
        q == a \div 10
        r == a % 10
        m == IF r > 5 \/ (r = 5 /\ q % 2 = 1) THEN q + 1 ELSE q
    IN  IF v < 0 THEN -m ELSE m

\* key = (round(s["lat"], 5), round(s["lon"], 5))
GroupKey(s) == <<Round5(s.lat), Round5(s.lon)>>

KeyIndex(gs, key) ==
    IF \E i \in 1..Len(gs) : gs[i].key = key
    THEN CHOOSE i \in 1..Len(gs) : gs[i].key = key
    ELSE 0

\* An append that never finds the key.
AddToGroupsNewKey(gs, s) == Append(gs, [key |-> GroupKey(s), members |-> <<s>>])

\* groups[key].append(s) on a defaultdict(list): a new key is inserted last.
AddToGroups(gs, s) ==
    LET i == KeyIndex(gs, GroupKey(s))
    IN  IF i = 0
        THEN Append(gs, [key |-> GroupKey(s), members |-> <<s>>])
        ELSE [gs EXCEPT ![i].members = Append(@, s)]

\* tag = f"{s['species']} ({s['count']})"
Tag(s) == s.species \o " (" \o s.count \o ")"

\* A tag without the count.
TagSpeciesOnly(s) == s.species

\* The key popup_html keeps in seen_species.
SeenKey(s) == Tag(s)

\* The strings one shown sighting appends to lines.
EntryLines(s) ==
    << <<"entry", s.species, s.count, s.confirmed, s.date, s.observer>> >>
    \o (IF s.comments # "" THEN << <<"comments", s.comments>> >> ELSE << >>)
    \o (IF s.checklist # "" THEN << <<"checklist", s.checklist>> >> ELSE << >>)
    \o << <<"hr">> >>

RECURSIVE PopupLoop(_, _, _)
\* The for loop of popup_html from position i on, seen being seen_species.
PopupLoop(group, i, seen) ==
    IF i > Len(group) THEN << >>
    ELSE IF SeenKey(group[i]) \in seen THEN PopupLoop(group, i + 1, seen)
    ELSE EntryLines(group[i]) \o PopupLoop(group, i + 1, seen \cup {SeenKey(group[i])})

\* popup_html(group): the parts of the popup, before "".join.
popup_html(group) == << <<"loc", group[1].location>> >> \o PopupLoop(group, 1, {})

\* A sighting record as both adapters build it; date is the reported-date
\* string: <<"dt", day, time>> for "Feb 05, 2026 15:08", <<"d", day>> for
\* "Feb 05, 2026", <<"raw">> for anything else (the empty string included).
Sighting(sp, cnt, date, lat, lon, loc) ==
    [ species |-> sp, scientific |-> IF sp = "Ruff" THEN "Calidris pugnax" ELSE "Bubo scandiacus",
      count |-> cnt, confirmed |-> (cnt # "?"), location |-> loc,
      lat |-> lat, lon |-> lon, date |-> date, observer |-> "Ann",
      comments |-> IF date[1] = "dt" /\ date[3] = "09:30" THEN "seen at dawn" ELSE "",
      checklist |-> IF cnt = "?" THEN "" ELSE "https://ebird.org/checklist/S1" ]

GroupTags == { <<"Snowy Owl", "2">>, <<"Snowy Owl", "?">>, <<"Ruff", "2">> }

GroupDates == { <<"dt", 5, "15:08">>, <<"dt", 6, "09:30">> }

\* 42.12345 and 42.123451 round alike, 42.1234 does not (likewise the longitudes).
GroupPlaces ==
    { <<42123450, -71543210, "Plum Island">>, <<42123451, -71543211, "Plum Is.">>,
      <<42123400, -71543200, "Essex">> }

GroupRecords ==
    { Sighting(t[1], t[2], d, p[1], p[2], p[3]) : t \in GroupTags, d \in GroupDates, p \in GroupPlaces }

RECURSIVE SeqsUpTo(_, _)
\* The sequences over S of length at most n.
SeqsUpTo(S, n) ==
    IF n = 0 THEN { << >> }
    ELSE LET shorter == SeqsUpTo(S, n - 1)
         IN  shorter \cup { Append(q, x) : q \in { r \in shorter : Len(r) = n - 1 }, x \in S }

\* One iteration of the for loop of group_sightings.
GroupStep ==
    /\ gpc = "group" /\ gpos < Len(gin)
    /\ groups' = AddToGroups(groups, gin[gpos + 1])
    /\ gpos' = gpos + 1
    /\ UNCHANGED <<gin, popups, gpc, parseVars, colorVars, mainVars>>

\* return groups
GroupReturn ==
    /\ gpc = "group" /\ gpos = Len(gin)
    /\ gpc' = "popup"
    /\ UNCHANGED <<gin, gpos, groups, popups, parseVars, colorVars, mainVars>>

\* popup_html for the next group of groups.items().
PopupStep ==
    /\ gpc = "popup" /\ Len(popups) < Len(groups)
    /\ popups' = Append(popups, popup_html(groups[Len(popups) + 1].members))
    /\ gpc' = IF Len(popups') = Len(groups) THEN "done" ELSE "popup"
    /\ UNCHANGED <<gin, gpos, groups, parseVars, colorVars, mainVars>>

ParseIdle ==
    /\ body = << >> /\ current = None /\ sightings = << >> /\ ppc = "idle"

GroupInit ==
    /\ gin \in SeqsUpTo(GroupRecords, MaxSightings) \ { << >> }
    /\ gpos = 0 /\ groups = << >> /\ popups = << >> /\ gpc = "group"
    /\ ParseIdle /\ ColorIdle /\ MainIdle

GroupNext == GroupStep \/ GroupReturn \/ PopupStep

SpecGroup == GroupInit /\ [][GroupNext]_vars

\* ---- properties of group_sightings ----

Taken == SubSeq(gin, 1, gpos)

FirstIndex(key) == CHOOSE i \in 1..gpos : GroupKey(gin[i]) = key /\ \A k \in 1..(i - 1) : GroupKey(gin[k]) # key

SameKey(key, s) == GroupKey(s) = key

\* C3: the groups partition the records taken so far by rounded coordinate
\* pair: keys are distinct, each group holds exactly the records with its key
\* in input order, every record has its group, each key is the coordinate
\* pair rounded to 5 places, and keys are in order of first appearance.
C3_GroupsPartitionInput ==
    /\ \A a, b \in 1..Len(groups) : a # b => groups[a].key # groups[b].key
    /\ \A a \in 1..Len(groups) :
        /\ groups[a].members # << >>
        /\ groups[a].members = SelectSeq(Taken, LAMBDA s : SameKey(groups[a].key, s))
        /\ \A i \in 1..Len(groups[a].members) :
            /\ Abs(groups[a].members[i].lat - 10 * groups[a].key[1]) <= 5
            /\ Abs(groups[a].members[i].lon - 10 * groups[a].key[2]) <= 5
    /\ \A i \in 1..gpos : \E a \in 1..Len(groups) : groups[a].key = GroupKey(gin[i])
    /\ \A a, b \in 1..Len(groups) : a < b => FirstIndex(groups[a].key) < FirstIndex(groups[b].key)

\* All records are grouped, into two groups, one of them holding records
\* whose unrounded latitudes differ.
C3_Witness ==
    /\ gpc = "popup" /\ Len(groups) = 2
    /\ \E a \in 1..2 : \E i, j \in 1..Len(groups[a].members) :
        groups[a].members[i].lat # groups[a].members[j].lat

\* ---- properties of popup_html ----

Entries(popup) == SelectSeq(popup, LAMBDA l : l[1] = "entry")

TagPair(s) == <<s.species, s.count>>

\* The positions of a group whose "species (count)" tag is seen first there.
Firsts(group) ==
    { j \in 1..Len(group) : \A k \in 1..(j - 1) : TagPair(group[k]) # TagPair(group[j]) }

\* C8: one popup per group of equal rounded coordinates, and each popup lists
\* exactly one entry per distinct "species (count)" tag, that of the first
\* record of the group carrying the tag, in first-seen order; a later record
\* with a tag already seen adds nothing.
C8_PopupOneEntryPerTag ==
    /\ Len(popups) <= Len(groups)
    /\ \A a, b \in 1..Len(groups) :
          a # b => \A i \in 1..Len(groups[a].members), j \in 1..Len(groups[b].members) :
                      GroupKey(groups[a].members[i]) # GroupKey(groups[b].members[j])
    /\ gpc = "done" => Len(popups) = Len(groups)
    /\ \A a \in 1..Len(popups) :
        LET group == groups[a].members
            e == Entries(popups[a])
        IN  /\ popups[a][1] = <<"loc", group[1].location>>
            /\ Len(e) = Cardinality(Firsts(group))
            /\ \A j \in Firsts(group) :
                  LET i == Cardinality({ k \in Firsts(group) : k <= j })
                      s == group[j]
                  IN  e[i] = <<"entry", s.species, s.count, s.confirmed, s.date, s.observer>>

\* A popup was built for a group of two records with the same tag and
\* different report times, and shows one entry.
C8_Witness ==
    \E a \in 1..Len(popups) :
        LET group == groups[a].members
        IN  /\ Len(group) >= 2
            /\ TagPair(group[1]) = TagPair(group[2]) /\ group[1].date # group[2].date
            /\ Len(Entries(popups[a])) = 1

(***************************************************************************)
(* age_color                                                               *)
(***************************************************************************)

\* Largest denominator of the age fractions the colour scaler is applied to.
MaxDen == 10

\* int(x) of the rational n / d, d > 0: truncation toward zero.
IntTrunc(n, d) == IF n >= 0 THEN n \div d ELSE -((-n) \div d)

\* int(c0 + (c1 - c0) * age_fraction) for the fraction f = << num, den >>.
Channel(c0, c1, f) == IntTrunc(c0 * f[2] + (c1 - c0) * f[1], f[2])

HexDigit(n) ==
    <<"0", "1", "2", "3", "4", "5", "6", "7", "8", "9", "a", "b", "c", "d", "e", "f">>[n + 1]

RECURSIVE HexStr(_)
\* The hexadecimal digits of n >= 0.
HexStr(n) == IF n < 16 THEN HexDigit(n) ELSE HexStr(n \div 16) \o HexDigit(n % 16)

\* f"{n:02x}": the sign, then the digits, zero-padded to width 2.
Format02x(n) ==
    IF n < 0 THEN "-" \o HexStr(-n)
    ELSE IF n < 16 THEN "0" \o HexStr(n)
    ELSE HexStr(n)

\* age_color(age_fraction), with the three channels kept beside the string.
age_color(f) ==
    LET r == Channel(231, 44, f)
        g == Channel(76, 62, f)
        b == Channel(60, 80, f)
    IN  [ r |-> r, g |-> g, b |-> b,
          hex |-> "#" \o Format02x(r) \o Format02x(g) \o Format02x(b) ]

ApplyAgeColor ==
    /\ cpc = "call"
    /\ color' = Some(age_color(age_fraction))
    /\ cpc' = "ret"
    /\ UNCHANGED <<age_fraction, parseVars, groupVars, mainVars>>

ColorInit ==
    /\ age_fraction \in { <<n, d>> : n \in 0..MaxDen, d \in 1..MaxDen } /\ age_fraction[1] <= age_fraction[2]
    /\ color = None /\ cpc = "call"
    /\ ParseIdle /\ GroupIdle /\ MainIdle

ColorNext == ApplyAgeColor

SpecColor == ColorInit /\ [][ColorNext]_vars

\* ---- properties of age_color ----

\* c is c0 + (c1 - c0) * f rounded to a nearest integer (either way at a tie).
IsRounded(c, c0, c1, f) == 2 * Abs(c * f[2] - (c0 * f[2] + (c1 - c0) * f[1])) <= f[2]

\* C4: fraction 0 gives #e74c3c, fraction 1 gives #2c3e50, and for every
\* fraction in [0,1] each channel is the interpolated value rounded to an
\* integer (so 0.5 gives the rounded midpoint of the two endpoints).
C4_ChannelsRounded ==
    cpc = "ret" =>
        /\ age_fraction[1] = 0 => color[1].hex = "#e74c3c"
        /\ age_fraction[1] = age_fraction[2] => color[1].hex = "#2c3e50"
        /\ IsRounded(color[1].r, 231, 44, age_fraction)
        /\ IsRounded(color[1].g, 76, 62, age_fraction)
        /\ IsRounded(color[1].b, 60, 80, age_fraction)

(***************************************************************************)
(* parse_reported_date and generate_map                                    *)
(***************************************************************************)

\* Reported dates are days 0..MaxDay.
MaxDay == 3

\* parse_reported_date: "%b %d, %Y %H:%M", then "%b %d, %Y", else None.
parse_reported_date(ds) == IF ds[1] \in {"dt", "d"} THEN Some(ds[2]) ELSE None

\* reported_dates, as the set of the dates that parse.
ReportedDates(list) ==
    { parse_reported_date(list[i].date)[1] :
        i \in { k \in 1..Len(list) : parse_reported_date(list[k].date) # None } }

SetMax(S) == CHOOSE m \in S : \A x \in S : x <= m

SetMin(S) == CHOOSE m \in S : \A x \in S : m <= x

\* The span without the floor at 1.
DateSpanNoFloor(days, dates) ==
    IF days # None /\ days[1] > 1 THEN days[1]
    ELSE IF dates # {} THEN SetMax(dates) - SetMin(dates) ELSE 1

\* date_span: days when it is truthy and > 1, else newest - oldest, or 1 when
\* there is no date or they are equal.
DateSpan(days, dates) ==
    IF days # None /\ days[1] # 0 /\ days[1] > 1 THEN days[1]
    ELSE IF dates # {} /\ SetMax(dates) # SetMin(dates)
         THEN SetMax(dates) - SetMin(dates)
         ELSE 1

\* age_frac of one group: (newest - group_newest).days / date_span, 0 when no
\* date parses at all; group_newest defaults to newest.
GroupAgeFrac(group, dates, span) ==
    LET gd == ReportedDates(group)
        group_newest == IF gd # {} THEN SetMax(gd) ELSE SetMax(dates)
    IN  IF dates # {} THEN <<SetMax(dates) - group_newest, span>> ELSE <<0, 1>>

\* One iteration of the marker loop.
Marker(g, dates, span) ==
    LET age_frac == GroupAgeFrac(g.members, dates, span)
    IN  [ lat |-> g.key[1], lon |-> g.key[2],
          popup |-> popup_html(g.members),
          tooltip |-> { g.members[i].species : i \in 1..Len(g.members) },
          age_frac |-> age_frac, color |-> age_color(age_frac) ]

RECURSIVE GroupAll(_, _)
\* group_sightings(sightings): the loop run from an initial dict.
GroupAll(gs, list) ==
    IF list = << >> THEN gs ELSE GroupAll(AddToGroups(gs, Head(list)), Tail(list))

RECURSIVE SortedDesc(_)
\* sorted(S, reverse=True)
SortedDesc(S) ==
    IF S = {} THEN << >> ELSE <<SetMax(S)>> \o SortedDesc(S \ {SetMax(S)})

\* The legend items: one per unique date, newest first, when there are
\* at least two.
Legend(dates, span) ==
    LET u == SortedDesc(dates)
    IN  IF Len(u) > 1
        THEN [ i \in 1..Len(u) |->
                 [ date |-> u[i], frac |-> <<SetMax(dates) - u[i], span>>,
                   color |-> age_color(<<SetMax(dates) - u[i], span>>) ] ]
        ELSE << >>

\* generate_map(sightings, title, out_path, days): what it computes, or the
\* exception a division by zero raises.
generate_map(list, days) ==
    LET dates == ReportedDates(list)
        span == DateSpan(days, dates)
        gs == GroupAll(<< >>, list)
    IN  IF Len(list) = 0 \/ (dates # {} /\ span = 0)
        THEN [ exc |-> Some("ZeroDivisionError"), days |-> days, n |-> Len(list),
               date_span |-> span, markers |-> << >>, legend |-> << >> ]
        ELSE [ exc |-> None, days |-> days, n |-> Len(list), date_span |-> span,
               markers |-> [ a \in 1..Len(gs) |-> Marker(gs[a], dates, span) ],
               legend |-> Legend(dates, span) ]

(***************************************************************************)
(* fetch_sightings                                                         *)
(***************************************************************************)

\* Most observations in an API answer.
MaxObs == 2

\* Text is a sequence of one-character strings where the code searches it.
LowerChar(c) ==
    CASE c = "M" -> "m" [] c = "A" -> "a" [] c = "D" -> "d" [] OTHER -> c

\* str.lower()
Lower(s) == [ i \in 1..Len(s) |-> LowerChar(s[i]) ]

\* needle in hay
Contains(needle, hay) ==
    \E i \in 0..(Len(hay) - Len(needle)) : SubSeq(hay, i + 1, i + Len(needle)) = needle

Places ==
    { <<42123450, -71543210, <<"L", "y", "n", "n", ",", " ", "M", "A">> >>,
      <<39283300, -76616700, <<"E", "l", "k", ",", " ", "M", "D">> >> }

\* The observation objects of an answer: obsDt is <<"iso_dt", day, time>> for
\* "%Y-%m-%d %H:%M", <<"iso_d", day>> for "%Y-%m-%d", <<"bad">> otherwise.
ApiObs ==
    { [ lat |-> Some(p[1]), lng |-> Some(p[2]), locName |-> p[3], obsDt |-> dt,
        obsReviewed |-> TRUE, obsValid |-> (dt[1] # "bad"), howMany |-> Some(2),
        comName |-> "Ruff", sciName |-> "Calidris pugnax", subId |-> "S1",
        userDisplayName |-> "Ann" ] :
        p \in Places,
        dt \in { <<"iso_dt", d, "15:08">> : d \in 0..MaxDay } \cup { <<"iso_d", 0>>, <<"bad">> } }
    \cup
    { [ lat |-> None, lng |-> Some(-71543210), locName |-> <<"M", "A">>,
        obsDt |-> <<"iso_d", 0>>, obsReviewed |-> TRUE, obsValid |-> TRUE,
        howMany |-> None, comName |-> "Ruff", sciName |-> "Calidris pugnax",
        subId |-> "", userDisplayName |-> "Ann" ] }

\* The strptime / strftime loop: "Feb 05, 2026 15:08" style, "" when neither
\* format matches.
FormatObsDt(dt) ==
    CASE dt[1] = "iso_dt" -> <<"dt", dt[2], dt[3]>>
      [] dt[1] = "iso_d" -> <<"dt", dt[2], "00:00">>
      [] OTHER -> <<"raw">>

\* The dict appended for one observation that has both coordinates.
ObsToSighting(obs) ==
    [ species |-> obs.comName, scientific |-> obs.sciName,
      count |-> IF Truthy(obs.howMany) THEN ToString(obs.howMany[1]) ELSE "?",
      confirmed |-> (obs.obsReviewed /\ obs.obsValid),
      location |-> obs.locName, lat |-> obs.lat[1], lon |-> obs.lng[1],
      date |-> FormatObsDt(obs.obsDt), observer |-> obs.userDisplayName,
      comments |-> "",
      checklist |-> IF obs.subId # "" THEN "https://ebird.org/checklist/" \o obs.subId ELSE "" ]

RECURSIVE ConvertObs(_)
\* The for loop over data: observations missing a coordinate are skipped.
ConvertObs(data) ==
    IF data = << >> THEN << >>
    ELSE IF Head(data).lat = None \/ Head(data).lng = None THEN ConvertObs(Tail(data))
    ELSE <<ObsToSighting(Head(data))>> \o ConvertObs(Tail(data))

\* One message for every HTTP error.
HttpErrorMessageSame(code, reason, region) == "Error: Invalid eBird API key."

\* The message of the except HTTPError branch.
HttpErrorMessage(code, reason, region) ==
    IF code = 403 THEN "Error: Invalid eBird API key."
    ELSE IF code = 400 THEN "Error: Invalid region code '" \o region \o "'."
    ELSE "eBird API error: " \o ToString(code) \o " " \o reason

\* The message of the except URLError branch.
UrlErrorMessage(reason) == "Network error: " \o reason

\* The message of the "if not data" exit.
NoDataMessage(region, back) ==
    "No notable observations found for region '" \o region \o "' in the last "
    \o ToString(back) \o " day(s)."

\* What urlopen, resp.read() and json.loads can give: an HTTPError, a URLError,
\* an exception of resp.read() (neither of the two, so nothing catches it), or
\* the decoded list.
Responses ==
    { [kind |-> "http", code |-> 403, reason |-> "Forbidden", data |-> << >>],
      [kind |-> "http", code |-> 400, reason |-> "Bad Request", data |-> << >>],
      [kind |-> "http", code |-> 500, reason |-> "Internal Server Error", data |-> << >>],
      [kind |-> "url", code |-> 0, reason |-> "timed out", data |-> << >>],
      [kind |-> "read", code |-> 200, data |-> << >>,
       reason |-> "http.client.IncompleteRead: IncompleteRead(0 bytes read)"] }
    \cup { [kind |-> "ok", code |-> 200, reason |-> "OK", data |-> d] : d \in SeqsUpTo(ApiObs, MaxObs) }

(***************************************************************************)
(* main                                                                    *)
(***************************************************************************)

\* The .eml files a directory can hold, in sorted order.
EmlPaths == <<"alerts/1.eml", "alerts/2.eml">>

ReportDates == { <<"raw">> } \cup { <<"dt", d, "15:08">> : d \in 0..MaxDay }

\* What parse_sightings returns for the body of one alert: nothing, or one
\* record with coordinates.
EmlSightingLists ==
    { << >> } \cup { << Sighting("Ruff", "2", d, p[1], p[2], p[3]) >> : d \in ReportDates, p \in Places }

\* One .eml file: whether it has a plain-text body, its Date header as a date
\* (None when the header is missing), and the sightings its body parses to.
EmlFiles ==
    { [plain |-> FALSE, date |-> None, parsed |-> << >>] }
    \cup { [plain |-> TRUE, date |-> d, parsed |-> l] :
             d \in { None } \cup { Some(n) : n \in 0..MaxDay }, l \in EmlSightingLists }

NoResponse == [kind |-> "none", code |-> 0, reason |-> "", data |-> << >>]

StateArgs == { None, Some(<<"M", "a">>) }

ApiArgs ==
    { [ region |-> Some("US-MA-017"), api_key |-> k, env_key |-> e, back |-> b,
        state |-> s, days |-> None ] :
        k \in { None, Some("key-a") }, e \in { None, Some("key-e") },
        b \in { 0, 2, 7, 40 }, s \in StateArgs }

EmlArgs ==
    { [ region |-> None, api_key |-> None, env_key |-> None, back |-> 7,
        state |-> s, days |-> d ] :
        s \in StateArgs, d \in { None } \cup { Some(n) : n \in (-1)..MaxDay } }

\* sys.exit(message): the message goes to stderr and the status is 1.
Exit(msg) ==
    /\ outcome' = Some([kind |-> "exit", msg |-> msg, status |-> 1])
    /\ pc' = "end"

\* An exception nothing catches: a traceback, and status 1.
Raise(exc) ==
    /\ outcome' = Some([kind |-> "exception", msg |-> exc, status |-> 1])
    /\ pc' = "end"

\* api_key = args.api_key or os.environ.get("EBIRD_API_KEY")
ApiKey == IF args.api_key # None THEN args.api_key ELSE args.env_key

\* back = max(1, min(30, args.back))
Back == IF args.back > 30 THEN 30 ELSE IF args.back < 1 THEN 1 ELSE args.back

\* API mode without a key.
MainApiNoKey ==
    /\ pc = "start" /\ args.region # None /\ ApiKey = None
    /\ Exit("Error: --api-key or EBIRD_API_KEY env var required with --region.")
    /\ UNCHANGED <<args, env, idx, parsed_emls, newest_date, all_sightings, gm, otherVars>>

\* fetch_sightings: urlopen raises HTTPError.
FetchHttpError ==
    /\ pc = "start" /\ args.region # None /\ ApiKey # None
    /\ env.response.kind = "http"
    /\ Exit(HttpErrorMessage(env.response.code, env.response.reason, args.region[1]))
    /\ UNCHANGED <<args, env, idx, parsed_emls, newest_date, all_sightings, gm, otherVars>>

\* fetch_sightings: urlopen raises URLError.
FetchUrlError ==
    /\ pc = "start" /\ args.region # None /\ ApiKey # None
    /\ env.response.kind = "url"
    /\ Exit(UrlErrorMessage(env.response.reason))
    /\ UNCHANGED <<args, env, idx, parsed_emls, newest_date, all_sightings, gm, otherVars>>

\* fetch_sightings: resp.read() raises; no except clause matches.
FetchReadError ==
    /\ pc = "start" /\ args.region # None /\ ApiKey # None
    /\ env.response.kind = "read"
    /\ Raise(env.response.reason)
    /\ UNCHANGED <<args, env, idx, parsed_emls, newest_date, all_sightings, gm, otherVars>>

\* fetch_sightings: the answer is an empty list.
FetchNoData ==
    /\ pc = "start" /\ args.region # None /\ ApiKey # None
    /\ env.response.kind = "ok" /\ env.response.data = << >>
    /\ Exit(NoDataMessage(args.region[1], Back))
    /\ UNCHANGED <<args, env, idx, parsed_emls, newest_date, all_sightings, gm, otherVars>>

\* fetch_sightings returns the converted observations.
FetchOk ==
    /\ pc = "start" /\ args.region # None /\ ApiKey # None
    /\ env.response.kind = "ok" /\ env.response.data # << >>
    /\ all_sightings' = Some(ConvertObs(env.response.data))
    /\ pc' = "state_filter"
    /\ UNCHANGED <<args, env, idx, parsed_emls, newest_date, outcome, gm, otherVars>>

\* find_emls
FindEmls ==
    /\ pc = "start" /\ args.region = None
    /\ IF env.files = << >>
       THEN Exit("No .eml files found in alerts")
       ELSE pc' = "parse" /\ UNCHANGED outcome
    /\ UNCHANGED <<args, env, idx, parsed_emls, newest_date, all_sightings, gm, otherVars>>

\* One iteration of the parse loop: parse_eml, parse_sightings, and the
\* append when there are sightings.
ParseEml ==
    /\ pc = "parse" /\ idx < Len(env.files)
    /\ LET f == env.files[idx + 1]
       IN  IF ~f.plain
           THEN /\ Exit("No plain-text body found in " \o EmlPaths[idx + 1])
                /\ UNCHANGED <<idx, parsed_emls>>
           ELSE /\ idx' = idx + 1
                /\ parsed_emls' =
                      IF f.parsed # << >>
                      THEN Append(parsed_emls,
                                  [ path |-> EmlPaths[idx + 1], sightings |-> f.parsed,
                                    send_date |-> f.date ])
                      ELSE parsed_emls
                /\ UNCHANGED <<pc, outcome>>
    /\ UNCHANGED <<args, env, newest_date, all_sightings, gm, otherVars>>

\* if not parsed_emls: sys.exit(...)
CheckParsed ==
    /\ pc = "parse" /\ idx = Len(env.files)
    /\ IF parsed_emls = << >>
       THEN Exit("No sightings with coordinates found in any .eml file.")
       ELSE pc' = "date_filter" /\ UNCHANGED outcome
    /\ UNCHANGED <<args, env, idx, parsed_emls, newest_date, all_sightings, gm, otherVars>>

\* The send dates of the parsed emails that have one.
SendDates(emls) ==
    { emls[i].send_date[1] : i \in { k \in 1..Len(emls) : emls[k].send_date # None } }

\* A filter that keeps every email.
KeepAll(e, cutoff) == TRUE

\* e[3] and e[3] >= cutoff
KeepEml(e, cutoff) == e.send_date # None /\ e.send_date[1] >= cutoff

\* newest_date = max(...), and the --days filter.
DateFilter ==
    /\ pc = "date_filter"
    /\ IF SendDates(parsed_emls) = {}
       THEN /\ Raise("ValueError: max() arg is an empty sequence")
            /\ UNCHANGED <<newest_date, parsed_emls>>
       ELSE /\ newest_date' = Some(SetMax(SendDates(parsed_emls)))
            /\ parsed_emls' =
                  IF args.days # None
                  THEN SelectSeq(parsed_emls,
                                 LAMBDA e : KeepEml(e, newest_date'[1] - (args.days[1] - 1)))
                  ELSE parsed_emls
            /\ pc' = "collect" /\ UNCHANGED outcome
    /\ UNCHANGED <<args, env, idx, all_sightings, gm, otherVars>>

\* s["email_date"] = send_date for each sighting of one email.
Tagged(e) ==
    [ i \in 1..Len(e.sightings) |->
        [ k \in DOMAIN e.sightings[i] \cup {"email_date"} |->
            IF k = "email_date" THEN e.send_date ELSE e.sightings[i][k] ] ]

RECURSIVE Collected(_)
\* all_sightings after the collecting loop.
Collected(emls) ==
    IF emls = << >> THEN << >> ELSE Tagged(Head(emls)) \o Collected(Tail(emls))

Collect ==
    /\ pc = "collect"
    /\ all_sightings' = Some(Collected(parsed_emls))
    /\ pc' = "state_filter"
    /\ UNCHANGED <<args, env, idx, parsed_emls, newest_date, outcome, gm, otherVars>>

\* args.state.lower() in s["location"].lower()
InState(s) == Contains(Lower(args.state[1]), Lower(s.location))

\* if args.state: all_sightings = filtered
StateFilter ==
    /\ pc = "state_filter"
    /\ all_sightings' =
          IF args.state # None /\ args.state[1] # << >>
          THEN Some(SelectSeq(all_sightings[1], InState))
          ELSE all_sightings
    /\ pc' = "check"
    /\ UNCHANGED <<args, env, idx, parsed_emls, newest_date, outcome, gm, otherVars>>

\* not all_sightings
IsEmpty(list) == list = << >>

\* if not all_sightings: sys.exit(...)
CheckSightings ==
    /\ pc = "check"
    /\ IF IsEmpty(all_sightings[1])
       THEN Exit("No sightings with coordinates found.")
       ELSE pc' = "generate" /\ UNCHANGED outcome
    /\ UNCHANGED <<args, env, idx, parsed_emls, newest_date, all_sightings, gm, otherVars>>

\* The days argument of the generate_map call: back in API mode, args.days
\* in .eml mode.
DaysPassed == IF args.region # None THEN Some(Back) ELSE args.days

\* generate_map, then "Map written to".
GenerateMap ==
    /\ pc = "generate"
    /\ LET m == generate_map(all_sightings[1], DaysPassed)
       IN  IF m.exc # None
           THEN Raise(m.exc[1]) /\ UNCHANGED gm
           ELSE /\ gm' = Some(m)
                /\ outcome' = Some([kind |-> "written", msg |-> "Map written to: ebird_map.html",
                                    status |-> 0])
                /\ pc' = "end"
    /\ UNCHANGED <<args, env, idx, parsed_emls, newest_date, all_sightings, otherVars>>

MainInit ==
    /\ pc = "start"
    /\ \/ args \in ApiArgs /\ env \in { [files |-> << >>, response |-> r] : r \in Responses }
       \/ args \in EmlArgs
          /\ env \in { [files |-> f, response |-> NoResponse] : f \in SeqsUpTo(EmlFiles, Len(EmlPaths)) }
    /\ idx = 0 /\ parsed_emls = << >> /\ newest_date = None /\ all_sightings = None
    /\ outcome = None /\ gm = None
    /\ ParseIdle /\ GroupIdle /\ ColorIdle

MainNext ==
    \/ MainApiNoKey \/ FetchHttpError \/ FetchUrlError \/ FetchReadError
    \/ FetchNoData \/ FetchOk
    \/ FindEmls \/ ParseEml \/ CheckParsed \/ DateFilter \/ Collect \/ StateFilter
    \/ CheckSightings \/ GenerateMap

SpecMain == MainInit /\ [][MainNext]_vars

\* ---- properties of fetch_sightings ----

ApiMode == pc # "idle" /\ args.region # None

EmlMode == pc # "idle" /\ args.region = None

\* The outcomes the adapter tells apart.
FailureClass(r) ==
    CASE r.kind = "http" /\ r.code = 403 -> "credential"
      [] r.kind = "http" /\ r.code = 400 -> "region"
      [] r.kind = "http" /\ r.code \notin {400, 403} -> "transport"
      [] r.kind \in {"url", "read"} -> "transport"
      [] r.kind = "ok" /\ r.data = << >> -> "no data"
      [] OTHER -> "data"

\* The message fetch_sightings ends a run with on answer r.
FailureMessage(r, region, back) ==
    CASE r.kind = "http" -> HttpErrorMessage(r.code, r.reason, region)
      [] r.kind = "url" -> UrlErrorMessage(r.reason)
      [] r.kind = "read" -> r.reason
      [] OTHER -> NoDataMessage(region, back)

Failures == { r \in Responses : FailureClass(r) # "data" }

\* C6: an invalid key (403), an invalid region (400), any other HTTP or
\* transport error and an empty answer each end the run with a non-zero status
\* and a message that no answer of another class produces, for any region and
\* look-back; no sighting list is returned and no map is written.
C6_FetchFailuresDistinct ==
    (ApiMode /\ ApiKey # None /\ pc # "start" /\ FailureClass(env.response) # "data") =>
        /\ pc = "end" /\ outcome # None
        /\ outcome[1].kind # "written" /\ outcome[1].status # 0 /\ outcome[1].msg # ""
        /\ env.response.kind # "read" => outcome[1].kind = "exit"
        /\ all_sightings = None /\ gm = None
        /\ \A r \in Failures :
              FailureClass(r) # FailureClass(env.response) =>
                  \A region \in {"US-MA-017", "US-MD"}, back \in 1..30 :
                      outcome[1].msg # FailureMessage(r, region, back)

\* A run the API answered with HTTP 400 has ended with the region message.
C6_Witness ==
    /\ ApiMode /\ pc = "end" /\ env.response.kind = "http" /\ env.response.code = 400
    /\ outcome[1].msg = "Error: Invalid region code 'US-MA-017'."

\* ---- properties of main ----

\* C7: every run of main ends either with the map written from a non-empty
\* sighting list or with a message and a non-zero status; never with an
\* uncaught exception, never with a map of zero sightings.
C7_RunEndsWithMapOrMessage ==
    pc = "end" =>
        \/ outcome[1].kind = "written" /\ gm # None /\ gm[1].n > 0
        \/ outcome[1].kind = "exit" /\ outcome[1].msg # "" /\ outcome[1].status # 0

\* The emails the parse loop kept: a plain-text body with at least one sighting.
ParsedBefore ==
    { [ path |-> EmlPaths[i], sightings |-> env.files[i].parsed,
        send_date |-> env.files[i].date ] :
        i \in { k \in 1..Len(env.files) : env.files[k].plain /\ env.files[k].parsed # << >> } }

\* The day filter has run and the email, or its record, is still there.
Survives(e) ==
    IF pc = "collect" THEN \E j \in 1..Len(parsed_emls) : parsed_emls[j] = e
    ELSE IF all_sightings = None THEN FALSE
    ELSE \E j \in 1..Len(all_sightings[1]) : all_sightings[1][j] = Tagged(e)[1]

\* The run reached the day filter: it ran, or newest_date could not be computed.
FilterRan ==
    /\ EmlMode /\ args.days # None
    /\ \/ pc \in {"collect", "state_filter"}
       \/ pc = "end" /\ outcome[1].kind = "exception"

ReportDay(e) == parse_reported_date(e.sightings[1].date)

\* C5 as stated, for emails that all carry a Date header: with filter N a
\* record survives iff its report date is >= the newest report date - (N - 1)
\* days.
C5_DayFilterByReportDate ==
    (FilterRan /\ \A e \in ParsedBefore : e.send_date # None) =>
        LET dated == { e \in ParsedBefore : ReportDay(e) # None }
        IN  \A e \in dated :
              Survives(e) <=>
                  \A o \in dated : ReportDay(e)[1] >= ReportDay(o)[1] - (args.days[1] - 1)

\* C5 as amended: with filter N a record survives iff the email it was parsed
\* from has a send date and that date is >= D - (N - 1) days, D being the
\* newest send date among the emails that yielded a sighting; the report
\* date plays no part.
C5_DayFilterBySendDate ==
    FilterRan =>
        \A e \in ParsedBefore :
            Survives(e) <=>
                /\ e.send_date # None
                /\ \A o \in ParsedBefore :
                      o.send_date # None => e.send_date[1] >= o.send_date[1] - (args.days[1] - 1)

\* The filter kept one email and dropped another, and the record it kept was
\* reported before the one it dropped.
C5_Witness ==
    /\ FilterRan /\ pc = "state_filter"
    /\ \E e, o \in ParsedBefore :
        /\ Survives(e) /\ ~Survives(o)
        /\ ReportDay(e) # None /\ ReportDay(o) # None /\ ReportDay(e)[1] < ReportDay(o)[1]

\* ---- properties of generate_map ----

\* The age fraction the claim gives a group: (global newest - the group's
\* newest parseable date) / span, 0 for a group without a parseable date.
ExpectedFrac(members, dates, span) ==
    IF ReportedDates(members) = {} \/ dates = {} THEN 0
    ELSE SetMax(dates) - SetMax(ReportedDates(members))

InUnitInterval(f) == f[2] > 0 /\ 0 <= f[1] /\ f[1] <= f[2]

IsByte(c) == c \in 0..255

\* C9, for the runs of main on .eml files: each marker's age fraction is
\* (global newest - group newest) / span, 0 for a group with no parseable
\* date, and lies in [0,1], as does every legend entry's; every colour
\* channel is an integer in 0..255.
C9_AgeFractionInUnitInterval ==
    (EmlMode /\ gm # None) =>
        LET m == gm[1]
            dates == ReportedDates(all_sightings[1])
            gs == GroupAll(<< >>, all_sightings[1])
        IN  /\ \A a \in 1..Len(m.markers) :
                /\ m.markers[a].age_frac[1] = ExpectedFrac(gs[a].members, dates, m.date_span)
                /\ m.markers[a].age_frac[1] # 0 => m.markers[a].age_frac[2] = m.date_span
                /\ InUnitInterval(m.markers[a].age_frac)
                /\ IsByte(m.markers[a].color.r) /\ IsByte(m.markers[a].color.g)
                /\ IsByte(m.markers[a].color.b)
            /\ \A i \in 1..Len(m.legend) :
                /\ InUnitInterval(m.legend[i].frac)
                /\ IsByte(m.legend[i].color.r) /\ IsByte(m.legend[i].color.g)
                /\ IsByte(m.legend[i].color.b)

\* C10: generate_map never divides by zero: the span is the day count when
\* that is > 1, else newest - oldest, and is always >= 1; and the list whose
\* length divides the centre coordinates is never empty.
C10_NoDivisionByZero ==
    /\ outcome # None => outcome[1].msg # "ZeroDivisionError"
    /\ pc = "generate" => all_sightings[1] # << >>
    /\ gm # None =>
        LET m == gm[1]
            dates == ReportedDates(all_sightings[1])
        IN  /\ m.n = Len(all_sightings[1]) /\ m.n >= 1
            /\ m.date_span >= 1
            /\ m.days = (IF args.region # None
                         THEN Some(IF args.back > 30 THEN 30 ELSE IF args.back < 1 THEN 1 ELSE args.back)
                         ELSE args.days)
            /\ IF m.days # None /\ m.days[1] > 1
               THEN m.date_span = m.days[1]
               ELSE \/ dates = {} /\ m.date_span = 1
                    \/ \E hi, lo \in dates :
                        /\ \A d \in dates : lo <= d /\ d <= hi
                        /\ m.date_span = IF hi = lo THEN 1 ELSE hi - lo

\* A map was written with a day count of 1 from sightings all reported on
\* the same day: the span is the floor, 1.
C10_Witness ==
    /\ gm # None /\ gm[1].days = Some(1) /\ gm[1].date_span = 1
    /\ Cardinality(ReportedDates(all_sightings[1])) = 1
    /\ Len(all_sightings[1]) = 2

====
